---- MODULE Spec2Model ----
(***************************************************************************)
(* Model of src/api/main.py: the RCON session manager (RCONClient), its    *)
(* use by concurrently served Flask requests, and the player-info request. *)
(*                                                                         *)
(* The Flask development server started at line 364 serves each request on *)
(* its own thread; all of them share the module-level rcon_client (line    *)
(* 152).  RCONClient holds no lock, so a step of the model is one          *)
(* statement of connect / execute / disconnect that reads or writes the    *)
(* shared attribute self.conn, and the steps of different threads          *)
(* interleave freely.                                                      *)
(***************************************************************************)
EXTENDS Integers, Sequences, FiniteSets, TLC

\* ---------------------------------------------------------------- bounds
NumWorkers       == 2   \* request threads served concurrently
MaxConn          == 2   \* MCRcon objects alive at the same time
MaxAttempt       == 6   \* failed attempts followed in the connect() call of line 363
MaxWorkerAttempt == 1   \* failed attempts followed in a connect() call of a request thread
MaxTime          == 1   \* distinct readings of time.time()
MaxOutages       == 2   \* times the game server becomes unreachable
MaxDims          == 33  \* further dimension identifiers looked up

\* ------------------------------------------------------ program constants
connect_cooldown == 10
max_wait         == 300
lru_maxsize      == 32

None    == 0
Main    == 0
Workers == 1..NumWorkers
Procs   == {Main} \cup Workers
Conns   == 1..MaxConn

VARIABLES
  conn,               \* rcon_client.conn: None or an MCRcon object
  last_connect_time,  \* rcon_client.last_connect_time
  cstate,             \* per MCRcon object: free / new / failed / open / closed
  stream,             \* per MCRcon object: commands sent, response not yet read
  up, outages,        \* the game server: reachable?, times it became unreachable
  pc,                 \* per thread: the statement it is at
  dret,               \* per thread: where its disconnect() call returns to
  attempt,            \* per thread: the local `attempt` of its connect() call
  wait,               \* per thread: the duration of its latest time.sleep()
  held,               \* per thread: the object its running conn.command() is bound to
  result,             \* per thread: the value execute() returned
  \* history variables (observers, never read by the program's steps)
  waits,              \* per thread: the waits of the current connect() call, in order
  authd,              \* per thread: the object its connect() call authenticated
  issued,             \* per thread: its execute() was issued while the server was down
  failed,             \* per thread: the failure its execute() call is recovering from
  dexc,               \* per thread: the close of its latest disconnect() raised
  sinceOk,            \* a connect succeeded and no attempt has failed since
  \* the player-info request and the dimension resolver
  mapfile,            \* dimension_map.json: "table", "missing", "malformed", "undecodable"
  dim_cache,          \* the lru_cache of get_dimension_display_name, least recent first
  first,              \* history: per identifier, the display name first returned for it
  last,               \* history: the latest lookup, if the file was not edited since
  ipc,                \* where get_player_infos is
  players,            \* its list `players`
  idx,                \* the position of the loop of line 312 in `players`
  results,            \* its list `results`
  list_resp,          \* its `list_resp` (line 302)
  resps,              \* history: the entity responses received so far
  datas,              \* history: what parse_entity_data returned for each
  lookups             \* history: how the dimension lookup of each went

shared == <<conn, last_connect_time, cstate, stream>>
env    == <<up, outages>>
local  == <<pc, dret, attempt, wait, held, result>>
hist   == <<waits, authd, issued, failed, dexc, sinceOk>>
dims   == <<dim_cache, first, last>>
req    == <<list_resp, players, idx, results, resps, datas, lookups>>
info   == <<mapfile, dims, ipc, req>>
rcon   == <<shared, env, local, hist>>
vars   == <<rcon, info>>

\* ---------------------------------------------------------------- helpers
Min(a, b) == IF a < b THEN a ELSE b

RECURSIVE Pow2(_)
Pow2(n) == IF n = 0 THEN 1 ELSE 2 * Pow2(n - 1)

\* _calculate_wait with the cap left out.
Uncapped_calculate_wait(a) == connect_cooldown * Pow2(a)

\* _calculate_wait returning no wait at all.
NoWait_calculate_wait(a) == 0

\* RCONClient._calculate_wait
_calculate_wait(a) == Min(connect_cooldown * Pow2(a), max_wait)

\* The except clauses of connect(): what is done with a failure of each kind.
ConnectHandler(kind) ==
  CASE kind = "transport" -> "backoff"     \* MCRconException, socket.error, TimeoutError
    [] kind = "type"      -> "fix"         \* TypeError
    [] OTHER              -> "propagate"   \* anything else leaves connect()

\* execute() with the catch-all clause of lines 131-134 left out.
ExecuteHandlerNoCatchAll(kind) ==
  CASE kind = "transport" -> "retry"
    [] OTHER              -> "propagate"

\* The except clauses of execute(): every Exception is handled by a retry.
ExecuteHandler(kind) ==
  CASE kind = "transport" -> "retry"       \* MCRconException, ConnectionResetError, socket.error, struct.error
    [] OTHER              -> "retry"       \* except Exception

\* disconnect(): `except Exception` swallows a failing close ...
DisconnectHandler(raised) == "swallow"
\* disconnect() with the reference cleared in an `else` clause instead.
ClearsReferenceUnlessRaised(raised) == ~raised

\* ... and `finally` clears the reference whether or not the close raised.
ClearsReference(raised) == TRUE

ConnectKinds == {"transport", "type", "other"}
ExecuteKinds == {"transport", "other"}

Referenced(c, cn, hd) == cn = c \/ \E p \in Procs : hd[p] = c

\* An MCRcon object nobody refers to is garbage; unless its socket is still
\* open, its slot is reused at once.
Sweep(cs, cn, hd) ==
  [c \in Conns |-> IF ~Referenced(c, cn, hd) /\ cs[c] # "open" THEN "free" ELSE cs[c]]
SweepStream(st, cs, cn, hd) ==
  [c \in Conns |-> IF Sweep(cs, cn, hd)[c] = "free" THEN <<>> ELSE st[c]]

FreeConns == {c \in Conns : cstate[c] = "free"}
Fresh == CHOOSE c \in FreeConns : \A d \in FreeConns : c <= d

Alive(p) == p = Main \/ pc[Main] # "m_exit"

\* =========================================================== text helpers
\* A text is a sequence of one-character strings.  An optional value (a regex
\* match or None, a dict entry or its absence) is a sequence of length 0 or 1.
\* Op applied to the value of v, v being evaluated once.
ByValue(v, Op(_)) == CHOOSE r \in {Op(x) : x \in {v}} : TRUE

Digits == {"0", "1", "2", "3", "4", "5", "6", "7", "8", "9"}

DigitVal(c) ==
  CASE c = "0" -> 0 [] c = "1" -> 1 [] c = "2" -> 2 [] c = "3" -> 3 [] c = "4" -> 4
    [] c = "5" -> 5 [] c = "6" -> 6 [] c = "7" -> 7 [] c = "8" -> 8 [] c = "9" -> 9

\* number of consecutive digits of s from position i on
RECURSIVE DigitRun(_, _)
DigitRun(s, i) == IF i <= Len(s) /\ s[i] \in Digits THEN 1 + DigitRun(s, i + 1) ELSE 0

\* the number written by the n digits of s from position i on
RECURSIVE DigitsToNat(_, _, _)
DigitsToNat(s, i, n) ==
  IF n = 0 THEN 0 ELSE DigitsToNat(s, i, n - 1) * 10 + DigitVal(s[i + n - 1])

\* the unit suffix left in place
RemoveNothing(s, ch) == s

\* str.replace(ch, '')
Remove(s, ch) == SelectSeq(s, LAMBDA c : c # ch)

\* str.strip()
RECURSIVE LStrip(_)
LStrip(s) == IF s # <<>> /\ Head(s) = " " THEN LStrip(Tail(s)) ELSE s
RECURSIVE RStrip(_)
RStrip(s) ==
  IF s # <<>> /\ s[Len(s)] = " " THEN RStrip(SubSeq(s, 1, Len(s) - 1)) ELSE s
Strip(s) == RStrip(LStrip(s))

\* position of the first ", " in s from position i on, 0 when there is none
RECURSIVE FindSep(_, _)
FindSep(s, i) ==
  IF i + 1 > Len(s) THEN 0
  ELSE IF s[i] = "," /\ s[i + 1] = " " THEN i
  ELSE FindSep(s, i + 1)

\* str.split(", ")
RECURSIVE Split(_)
Split(s) ==
  IF FindSep(s, 1) = 0 THEN <<s>>
  ELSE <<SubSeq(s, 1, FindSep(s, 1) - 1)>> \o Split(SubSeq(s, FindSep(s, 1) + 2, Len(s)))

\* float(text): <<>> for ValueError, else <<the number>>, a number being
\* (-1)^neg * mant * 10^exp.  Grammar: [sign] digits [. digits] [E [sign] digits]
\* with a digit on at least one side of the point, between optional blanks.
FloatOf(t) ==
  LET sg   == IF Len(t) >= 1 /\ t[1] \in {"+", "-"} THEN 1 ELSE 0
      n1   == DigitRun(t, sg + 1)
      dot  == IF sg + n1 + 1 <= Len(t) /\ t[sg + n1 + 1] = "." THEN 1 ELSE 0
      n2   == IF dot = 1 THEN DigitRun(t, sg + n1 + 2) ELSE 0
      m    == sg + n1 + dot + n2
      hasE == m + 1 <= Len(t) /\ t[m + 1] \in {"E", "e"}
      esg  == IF hasE /\ m + 2 <= Len(t) /\ t[m + 2] \in {"+", "-"} THEN 1 ELSE 0
      n3   == IF hasE THEN DigitRun(t, m + 2 + esg) ELSE 0
      stop == IF hasE THEN m + 1 + esg + n3 ELSE m
      ev   == DigitsToNat(t, m + 2 + esg, n3)
  IN IF n1 + n2 >= 1 /\ (hasE => n3 >= 1) /\ stop = Len(t)
       THEN <<[neg  |-> sg = 1 /\ t[1] = "-",
               mant |-> DigitsToNat(t, sg + 1, n1) * 10^n2 + DigitsToNat(t, sg + n1 + 2, n2),
               exp  |-> (IF esg = 1 /\ t[m + 2] = "-" THEN 0 - ev ELSE ev) - n2]>>
       ELSE <<>>

PyFloat(text) == ByValue(Strip(text), FloatOf)

\* int(text) of a text the pattern has restricted to digits
PyInt(text) == IF text # <<>> /\ DigitRun(text, 1) = Len(text)
                 THEN <<DigitsToNat(text, 1, Len(text))>> ELSE <<>>

\* round(x, 1), in tenths (a tie is rounded away from zero)
Round1(x) ==
  LET mag == IF x.exp >= -1 THEN x.mant * 10^(x.exp + 1)
             ELSE (x.mant + 5 * 10^(-x.exp - 2)) \div 10^(-x.exp - 1)
  IN IF x.neg THEN 0 - mag ELSE mag

\* ===================================================== dimension resolver
\* A raw dimension identifier is the sequence of its colon-separated parts:
\* <<"minecraft", "the_end">> is "minecraft:the_end".
Overworld == <<"minecraft", "overworld">>
TheEnd    == <<"minecraft", "the_end">>
CustomDim == <<"minecraft", "custom_dim">>

\* The table dimension_map.json holds when it is present and well-formed.
DimensionTable == (Overworld :> "Overworld") @@ (TheEnd :> "The End")

\* Further identifiers (mods, datapacks), none of them in the table; the
\* second has no namespace.
Limbo == <<"limbo">>
ModNames == <<"d01", "d02", "d03", "d04", "d05", "d06", "d07", "d08", "d09", "d10",
              "d11", "d12", "d13", "d14", "d15", "d16", "d17", "d18", "d19", "d20",
              "d21", "d22", "d23", "d24", "d25", "d26", "d27", "d28", "d29", "d30",
              "d31", "d32", "d33", "d34", "d35", "d36">>
OtherDims(k) ==
  IF k = 1 THEN CustomDim ELSE IF k = 2 THEN Limbo ELSE <<"mod", ModNames[k]>>

\* What dimension_map.json may be: a JSON object, absent, not JSON, not UTF-8.
MapFiles == {"table", "missing", "malformed", "undecodable"}

\* `last` when no lookup has been made
NoLookup == [raw |-> <<>>, hit |-> FALSE, out |-> <<>>]

\* load_dimension_map() raises: the except clause of line 62 names
\* JSONDecodeError and IOError, and reading a file whose bytes are not UTF-8
\* raises UnicodeDecodeError, which is neither.
LoadRaises(file) == file = "undecodable"

\* load_dimension_map(): the table, or {} when the file is missing (line 65)
\* or is not JSON (line 64)
load_dimension_map(file) ==
  IF file = "table" THEN DimensionTable ELSE [x \in {} |-> ""]

\* the body of get_dimension_display_name: dimension_map.get(raw, raw.split(":")[-1])
LookupDisplay(raw, file) ==
  IF raw \in DOMAIN load_dimension_map(file) THEN load_dimension_map(file)[raw]
  ELSE raw[Len(raw)]

\* ============================================================ PlayerDataParser
PosClass == Digits \cup {".", ",", " ", "d", "E", "+", "-"}

\* Each pattern, applied to the text that follows the field's key in the
\* response (<<>> when the response has no such key): group(1) or no match.
POS_PATTERN(tok) ==          \* Pos:\s*\[([\d., dE+-]+)]
  IF tok # <<>> /\ tok[1] # <<>> /\ \A i \in 1..Len(tok[1]) : tok[1][i] \in PosClass
    THEN <<tok[1]>> ELSE <<>>

DIMENSION_PATTERN(tok) ==    \* Dimension:\s*"([^"]+)"
  IF tok # <<>> /\ tok[1] # <<>> THEN <<tok[1]>> ELSE <<>>

RECURSIVE NumRun(_, _)
NumRun(s, i) ==
  IF i <= Len(s) /\ s[i] \in Digits \cup {"."} THEN 1 + NumRun(s, i + 1) ELSE 0

HEALTH_PATTERN(tok) ==       \* Health:\s*([0-9.]+)[fs]
  IF /\ tok # <<>>
     /\ NumRun(tok[1], 1) >= 1
     /\ NumRun(tok[1], 1) < Len(tok[1])
     /\ tok[1][NumRun(tok[1], 1) + 1] \in {"f", "s"}
    THEN <<SubSeq(tok[1], 1, NumRun(tok[1], 1))>> ELSE <<>>

FOOD_PATTERN(tok) ==         \* (?:foodLevel|food):\s*(\d+)(?:s|b|)
  IF tok # <<>> /\ DigitRun(tok[1], 1) >= 1
    THEN <<SubSeq(tok[1], 1, DigitRun(tok[1], 1))>> ELSE <<>>

LEVEL_PATTERN(tok) ==        \* (?:XpLevel|level):\s*(\d+)(?:s|b|)
  IF tok # <<>> /\ DigitRun(tok[1], 1) >= 1
    THEN <<SubSeq(tok[1], 1, DigitRun(tok[1], 1))>> ELSE <<>>

\* lines 181-187: the position, or None when the split or a float() fails
Unpack3(parts) ==
  ByValue([i \in 1..Len(parts) |-> PyFloat(parts[i])],
          LAMBDA xs : IF Len(xs) = 3 /\ \A i \in 1..3 : xs[i] # <<>>
                        THEN <<[i \in 1..3 |-> xs[i][1]]>>
                        ELSE <<>>)

ParsePos(response) ==
  LET m == POS_PATTERN(response.Pos)
  IN IF m = <<>> THEN <<>>
     ELSE ByValue(Split(Strip(Remove(m[1], "d"))), Unpack3)

\* lines 190-195: raw and display form together; `display` is what
\* get_dimension_display_name returns for the raw identifier
ParseDimension(response, display) ==
  LET m == DIMENSION_PATTERN(response.Dimension)
  IN IF m = <<>> THEN <<>> ELSE <<[raw |-> m[1], display |-> display[m[1]][1]]>>

\* line 194 raises (display holds <<>> where the lookup raises): control
\* goes to the except clause of line 219, past the fields that follow
DimensionRaises(response, display) ==
  /\ DIMENSION_PATTERN(response.Dimension) # <<>>
  /\ display[DIMENSION_PATTERN(response.Dimension)[1]] = <<>>

\* lines 198-203: float when the text has a decimal point, else int
ParseHealth(response) ==
  LET m == HEALTH_PATTERN(response.Health)
  IN IF m = <<>> THEN <<>>
     ELSE IF \E i \in 1..Len(m[1]) : m[1][i] = "."
       THEN (IF PyFloat(m[1]) = <<>> THEN <<>>
             ELSE <<[type |-> "float", num |-> PyFloat(m[1])[1]]>>)
       ELSE <<[type |-> "int",
               num |-> [neg |-> FALSE, mant |-> PyInt(m[1])[1], exp |-> 0]]>>

\* lines 206-210
ParseFood(response) ==
  IF FOOD_PATTERN(response.food) = <<>> THEN <<>>
  ELSE PyInt(FOOD_PATTERN(response.food)[1])

\* lines 213-217
ParseLevel(response) ==
  IF LEVEL_PATTERN(response.level) = <<>> THEN <<>>
  ELSE PyInt(LEVEL_PATTERN(response.level)[1])

Fields == {"pos", "dimension", "health", "food", "level"}

\* parse_entity_data: the dict of line 171 filled in, then the None entries
\* dropped (line 222)
DropNone(parsed) == [k \in {f \in Fields : parsed[f] # <<>>} |-> parsed[k][1]]

parse_entity_data(response, display) ==
  ByValue([k \in Fields |->
             CASE k = "pos"                         -> ParsePos(response)
               [] DimensionRaises(response, display) -> <<>>
               [] k = "dimension" -> ParseDimension(response, display)
               [] k = "health"    -> ParseHealth(response)
               [] k = "food"      -> ParseFood(response)
               [] k = "level"     -> ParseLevel(response)],
          DropNone)

\* ------------------------------------------------------------------- Init
InitRcon ==
  /\ conn = None
  /\ last_connect_time = 0
  /\ cstate = [c \in Conns |-> "free"]
  /\ stream = [c \in Conns |-> <<>>]
  /\ up \in BOOLEAN
  /\ outages = 0
  /\ pc = [p \in Procs |-> IF p = Main THEN "m_start" ELSE "idle"]
  /\ dret = [p \in Procs |-> "none"]
  /\ attempt = [p \in Procs |-> 0]
  /\ wait = [p \in Procs |-> 0]
  /\ held = [p \in Procs |-> None]
  /\ result = [p \in Procs |-> None]
  /\ waits = [p \in Procs |-> <<>>]
  /\ authd = [p \in Procs |-> None]
  /\ issued = [p \in Procs |-> FALSE]
  /\ failed = [p \in Procs |-> "none"]
  /\ dexc = [p \in Procs |-> FALSE]
  /\ sinceOk = FALSE

InitInfo ==
  /\ mapfile \in MapFiles
  /\ dim_cache = <<>>
  /\ first = <<>>
  /\ last = NoLookup
  /\ ipc = "start"
  /\ list_resp = [zero |-> FALSE, matches |-> <<>>]
  /\ players = <<>>
  /\ idx = 1
  /\ results = <<>>
  /\ resps = <<>>
  /\ datas = <<>>
  /\ lookups = <<>>

\* The state right after the module is loaded (line 152: the client is
\* constructed, nothing is connected, no request is being served).
Init == InitRcon /\ InitInfo /\ mapfile = "table"

\* ------------------------------------------------------------ bookkeeping
\* Writes the shared reference and the bound objects, then sweeps garbage.
Commit(cs, st, cn, hd) ==
  /\ conn' = cn
  /\ held' = hd
  /\ cstate' = Sweep(cs, cn, hd)
  /\ stream' = SweepStream(st, cs, cn, hd)

\* Where control goes when an exception of `kind` leaves the try body of
\* execute() (a worker), or leaves connect() called at line 363 (main: the
\* finally clause at line 369 runs and the process ends).
Raise(p, kind) ==
  IF p = Main THEN [pc |-> "d_check", dret |-> "m_exit"]
  ELSE IF ExecuteHandler(kind) = "retry" THEN [pc |-> "d_check", dret |-> "e_sleep"]
  ELSE [pc |-> "x_raised", dret |-> dret[p]]

DiscPcs == {"d_check", "d_close", "d_clear"}

\* ------------------------------------------------------------ disconnect()
\* line 138: if self.conn
DCheck(p) ==
  /\ Alive(p) /\ pc[p] = "d_check"
  /\ IF conn = None
       THEN pc' = [pc EXCEPT ![p] = dret[p]]
       ELSE pc' = [pc EXCEPT ![p] = "d_close"]
  /\ UNCHANGED <<shared, env, dret, attempt, wait, held, result, hist>>
  /\ UNCHANGED info

\* What line 140-144 do after the close has raised or not.
AfterClose(p, raised) ==
  IF raised /\ DisconnectHandler(raised) # "swallow" THEN "d_raised"
  ELSE IF ClearsReference(raised) THEN "d_clear"
  ELSE dret[p]

\* line 140: self.conn.disconnect(); closing the socket may raise (the
\* descriptor is released all the same), and self.conn may have been cleared
\* by another thread since line 138 (AttributeError).
DClose(p) ==
  /\ Alive(p) /\ pc[p] = "d_close"
  /\ \E raised \in BOOLEAN :
       /\ conn = None => raised
       /\ pc' = [pc EXCEPT ![p] = AfterClose(p, raised)]
       /\ dexc' = [dexc EXCEPT ![p] = raised]
       /\ IF conn = None
            THEN UNCHANGED <<shared, held>>
            ELSE /\ Commit([cstate EXCEPT ![conn] = "closed"], stream, conn, held)
                 /\ UNCHANGED last_connect_time
  /\ UNCHANGED <<env, dret, attempt, wait, result>>
  /\ UNCHANGED <<waits, authd, issued, failed, sinceOk>>
  /\ UNCHANGED info

\* line 144: self.conn = None, then return
DClear(p) ==
  /\ Alive(p) /\ pc[p] = "d_clear"
  /\ pc' = [pc EXCEPT ![p] = dret[p]]
  /\ Commit(cstate, stream, None, held)
  /\ UNCHANGED <<last_connect_time, env, dret, attempt, wait, result, hist>>
  /\ UNCHANGED info

\* --------------------------------------------------------------- connect()
\* lines 95-98: attempt = 0, enter the loop, call disconnect()
CStart(p) ==
  /\ Alive(p) /\ pc[p] = "c_start"
  /\ attempt' = [attempt EXCEPT ![p] = 0]
  /\ waits' = [waits EXCEPT ![p] = <<>>]
  /\ authd' = [authd EXCEPT ![p] = None]
  /\ pc' = [pc EXCEPT ![p] = "d_check"]
  /\ dret' = [dret EXCEPT ![p] = "c_new"]
  /\ UNCHANGED <<shared, env, wait, held, result, issued, failed, dexc, sinceOk>>
  /\ UNCHANGED info

\* line 99: self.conn = MCRcon(...)
CNew(p) ==
  /\ Alive(p) /\ pc[p] = "c_new"
  /\ FreeConns # {}
  /\ Commit([cstate EXCEPT ![Fresh] = "new"], stream, Fresh, held)
  /\ pc' = [pc EXCEPT ![p] = "c_conn"]
  /\ dexc' = [dexc EXCEPT ![p] = FALSE]
  /\ UNCHANGED <<last_connect_time, env, dret, attempt, wait, result>>
  /\ UNCHANGED <<waits, authd, issued, failed, sinceOk>>
  /\ UNCHANGED info

\* line 100, self.conn is None (cleared by another thread): AttributeError
CConnNone(p) ==
  /\ Alive(p) /\ pc[p] = "c_conn"
  /\ conn = None
  /\ pc' = [pc EXCEPT ![p] = Raise(p, "other").pc]
  /\ dret' = [dret EXCEPT ![p] = Raise(p, "other").dret]
  /\ failed' = [failed EXCEPT ![p] = "connect"]
  /\ UNCHANGED <<shared, env, attempt, wait, held, result>>
  /\ UNCHANGED <<waits, authd, issued, dexc, sinceOk>>
  /\ UNCHANGED info

\* line 100, server reachable: the object self.conn is authenticated
CConnOk(p) ==
  /\ Alive(p) /\ pc[p] = "c_conn"
  /\ conn # None /\ up
  /\ Commit([cstate EXCEPT ![conn] = "open"], [stream EXCEPT ![conn] = <<>>], conn, held)
  /\ authd' = [authd EXCEPT ![p] = conn]
  /\ sinceOk' = TRUE
  /\ pc' = [pc EXCEPT ![p] = "c_ret"]
  /\ UNCHANGED <<last_connect_time, env, dret, attempt, wait, result>>
  /\ UNCHANGED <<waits, issued, failed, dexc>>
  /\ UNCHANGED info

\* line 100, server unreachable: the attempt raises; lines 104-115 handle it
CConnFail(p) ==
  /\ Alive(p) /\ pc[p] = "c_conn"
  /\ conn # None /\ ~up
  /\ Commit([cstate EXCEPT ![conn] = "failed"], stream, conn, held)
  /\ \E kind \in ConnectKinds :
       CASE ConnectHandler(kind) = "backoff" ->
              /\ wait' = [wait EXCEPT ![p] = _calculate_wait(attempt[p])]
              /\ waits' = [waits EXCEPT ![p] = Append(@, _calculate_wait(attempt[p]))]
              /\ sinceOk' = FALSE
              /\ pc' = [pc EXCEPT ![p] = "c_sleep"]
              /\ UNCHANGED <<dret, failed>>
         [] ConnectHandler(kind) = "fix" ->
              /\ pc' = [pc EXCEPT ![p] = "c_fix"]
              /\ UNCHANGED <<wait, waits, sinceOk, dret, failed>>
         [] OTHER ->
              /\ pc' = [pc EXCEPT ![p] = Raise(p, kind).pc]
              /\ dret' = [dret EXCEPT ![p] = Raise(p, kind).dret]
              /\ failed' = [failed EXCEPT ![p] = "connect"]
              /\ UNCHANGED <<wait, waits, sinceOk>>
  /\ UNCHANGED <<last_connect_time, env, attempt, result, authd, issued, dexc>>
  /\ UNCHANGED info

\* lines 102-103: self.last_connect_time = time.time(); return.  The clock is
\* read here only, and a reading is never below an earlier one.
CRet(p) ==
  /\ Alive(p) /\ pc[p] = "c_ret"
  /\ last_connect_time' \in {t \in 1..MaxTime : t >= last_connect_time}
  /\ pc' = [pc EXCEPT ![p] = IF p = Main THEN "m_serve" ELSE "e_send"]
  /\ attempt' = [attempt EXCEPT ![p] = 0]
  /\ waits' = [waits EXCEPT ![p] = <<>>]
  /\ authd' = [authd EXCEPT ![p] = None]
  /\ UNCHANGED <<conn, cstate, stream, env, dret, wait, held, result>>
  /\ UNCHANGED <<issued, failed, dexc, sinceOk>>
  /\ UNCHANGED info

\* lines 107-108: time.sleep(wait) is over; attempt += 1; next iteration
CWake(p) ==
  /\ Alive(p) /\ pc[p] = "c_sleep"
  /\ attempt[p] < (IF p = Main THEN MaxAttempt ELSE MaxWorkerAttempt)
  /\ attempt' = [attempt EXCEPT ![p] = @ + 1]
  /\ wait' = [wait EXCEPT ![p] = 0]
  /\ pc' = [pc EXCEPT ![p] = "d_check"]
  /\ dret' = [dret EXCEPT ![p] = "c_new"]
  /\ UNCHANGED <<shared, env, held, result, hist>>
  /\ UNCHANGED info

\* lines 111-115: self.conn = MCRcon(...) in the TypeError handler; next iteration
CFix(p) ==
  /\ Alive(p) /\ pc[p] = "c_fix"
  /\ FreeConns # {}
  /\ Commit([cstate EXCEPT ![Fresh] = "new"], stream, Fresh, held)
  /\ pc' = [pc EXCEPT ![p] = "d_check"]
  /\ dret' = [dret EXCEPT ![p] = "c_new"]
  /\ UNCHANGED <<last_connect_time, env, attempt, wait, result, hist>>
  /\ UNCHANGED info

\* --------------------------------------------------------------- execute()
\* A request thread calls rcon_client.execute(command); the command is named
\* after the thread that issues it.
Start(w) ==
  /\ pc[Main] = "m_serve" /\ pc[w] = "idle"
  /\ pc' = [pc EXCEPT ![w] = "e_check"]
  /\ issued' = [issued EXCEPT ![w] = ~up]
  /\ failed' = [failed EXCEPT ![w] = "none"]
  /\ wait' = [wait EXCEPT ![w] = 0]
  /\ result' = [result EXCEPT ![w] = None]
  /\ UNCHANGED <<shared, env, dret, attempt, held, waits, authd, dexc, sinceOk>>
  /\ UNCHANGED info

\* lines 121-122: if not self.conn: self.connect()
ECheck(w) ==
  /\ Alive(w) /\ pc[w] = "e_check"
  /\ pc' = [pc EXCEPT ![w] = IF conn = None THEN "c_start" ELSE "e_send"]
  /\ wait' = [wait EXCEPT ![w] = 0]
  /\ failed' = [failed EXCEPT ![w] = "none"]
  /\ UNCHANGED <<shared, env, dret, attempt, held, result>>
  /\ UNCHANGED <<waits, authd, issued, dexc, sinceOk>>
  /\ UNCHANGED info

\* line 124, self.conn.command(command): the request is written to the
\* socket of the object self.conn refers to now
ESendOk(w) ==
  /\ Alive(w) /\ pc[w] = "e_send"
  /\ conn # None /\ cstate[conn] = "open" /\ up
  /\ Commit(cstate, [stream EXCEPT ![conn] = Append(@, w)],
            conn, [held EXCEPT ![w] = conn])
  /\ pc' = [pc EXCEPT ![w] = "e_recv"]
  /\ UNCHANGED <<last_connect_time, env, dret, attempt, wait, result, hist>>
  /\ UNCHANGED info

\* line 124 raises: self.conn is None (AttributeError), the object is not
\* connected, or the server is unreachable; lines 127-134 handle it
ESendFail(w) ==
  /\ Alive(w) /\ pc[w] = "e_send"
  /\ ~(conn # None /\ cstate[conn] = "open" /\ up)
  /\ \E kind \in ExecuteKinds :
       /\ conn = None => kind = "other"
       /\ pc' = [pc EXCEPT ![w] = Raise(w, kind).pc]
       /\ dret' = [dret EXCEPT ![w] = Raise(w, kind).dret]
  /\ failed' = [failed EXCEPT ![w] = "send"]
  /\ UNCHANGED <<shared, env, attempt, wait, held, result>>
  /\ UNCHANGED <<waits, authd, issued, dexc, sinceOk>>
  /\ UNCHANGED info

\* line 124, second half: the next response on the socket is read and returned
\* (line 126)
ERecvOk(w) ==
  /\ Alive(w) /\ pc[w] = "e_recv"
  /\ cstate[held[w]] = "open" /\ up /\ stream[held[w]] # <<>>
  /\ result' = [result EXCEPT ![w] = Head(stream[held[w]])]
  /\ Commit(cstate, [stream EXCEPT ![held[w]] = Tail(@)], conn, [held EXCEPT ![w] = None])
  /\ pc' = [pc EXCEPT ![w] = "e_done"]
  /\ UNCHANGED <<last_connect_time, env, dret, attempt, wait, hist>>
  /\ UNCHANGED info

\* line 124, second half, raises: the socket was closed or reconnected by
\* another thread, or the server became unreachable
ERecvFail(w) ==
  /\ Alive(w) /\ pc[w] = "e_recv"
  /\ ~(cstate[held[w]] = "open" /\ up /\ stream[held[w]] # <<>>)
  /\ \E kind \in ExecuteKinds :
       /\ pc' = [pc EXCEPT ![w] = Raise(w, kind).pc]
       /\ dret' = [dret EXCEPT ![w] = Raise(w, kind).dret]
  /\ failed' = [failed EXCEPT ![w] = "send"]
  /\ Commit(cstate, stream, conn, [held EXCEPT ![w] = None])
  /\ UNCHANGED <<last_connect_time, env, attempt, wait, result>>
  /\ UNCHANGED <<waits, authd, issued, dexc, sinceOk>>
  /\ UNCHANGED info

\* lines 130 / 134: time.sleep(self.connect_cooldown), then the next iteration
ESleep(w) ==
  /\ Alive(w) /\ pc[w] = "e_sleep"
  /\ wait' = [wait EXCEPT ![w] = connect_cooldown]
  /\ pc' = [pc EXCEPT ![w] = "e_check"]
  /\ dexc' = [dexc EXCEPT ![w] = FALSE]
  /\ UNCHANGED <<shared, env, dret, attempt, held, result>>
  /\ UNCHANGED <<waits, authd, issued, failed, sinceOk>>
  /\ UNCHANGED info

\* the request that called execute() is answered; the thread serves another
EDone(w) ==
  /\ Alive(w) /\ pc[w] = "e_done"
  /\ pc' = [pc EXCEPT ![w] = "idle"]
  /\ result' = [result EXCEPT ![w] = None]
  /\ issued' = [issued EXCEPT ![w] = FALSE]
  /\ failed' = [failed EXCEPT ![w] = "none"]
  /\ wait' = [wait EXCEPT ![w] = 0]
  /\ UNCHANGED <<shared, env, dret, attempt, held>>
  /\ UNCHANGED <<waits, authd, dexc, sinceOk>>
  /\ UNCHANGED info

\* -------------------------------------------------------------- __main__
\* line 363: rcon_client.connect()
MStart ==
  /\ pc[Main] = "m_start"
  /\ pc' = [pc EXCEPT ![Main] = "c_start"]
  /\ UNCHANGED <<shared, env, dret, attempt, wait, held, result, hist>>
  /\ UNCHANGED info

\* ------------------------------------------------------------ environment
ServerDown ==
  /\ up /\ outages < MaxOutages
  /\ up' = FALSE
  /\ outages' = outages + 1
  /\ UNCHANGED <<shared, local, hist>>
  /\ UNCHANGED info

ServerUp ==
  /\ ~up
  /\ up' = TRUE
  /\ UNCHANGED <<shared, outages, local, hist>>
  /\ UNCHANGED info

\* The garbage collector closes the socket of an object nobody refers to.
Collect ==
  \E c \in Conns :
    /\ cstate[c] = "open" /\ ~Referenced(c, conn, held)
    /\ cstate' = [cstate EXCEPT ![c] = "free"]
    /\ stream' = [stream EXCEPT ![c] = <<>>]
    /\ UNCHANGED <<conn, last_connect_time, env, local, hist, info>>

\* ------------------------------------------------------------------ Next
Next ==
  \/ \E p \in Procs : DCheck(p)
  \/ \E p \in Procs : DClose(p)
  \/ \E p \in Procs : DClear(p)
  \/ \E p \in Procs : CStart(p)
  \/ \E p \in Procs : CNew(p)
  \/ \E p \in Procs : CConnNone(p)
  \/ \E p \in Procs : CConnOk(p)
  \/ \E p \in Procs : CConnFail(p)
  \/ \E p \in Procs : CRet(p)
  \/ \E p \in Procs : CWake(p)
  \/ \E p \in Procs : CFix(p)
  \/ \E w \in Workers : Start(w)
  \/ \E w \in Workers : ECheck(w)
  \/ \E w \in Workers : ESendOk(w)
  \/ \E w \in Workers : ESendFail(w)
  \/ \E w \in Workers : ERecvOk(w)
  \/ \E w \in Workers : ERecvFail(w)
  \/ \E w \in Workers : ESleep(w)
  \/ \E w \in Workers : EDone(w)
  \/ MStart
  \/ ServerDown
  \/ ServerUp
  \/ Collect

Spec == Init /\ [][Next]_vars

\* ==================================================== get_dimension_display_name
\* where the cache holds raw (0: nowhere)
CacheIndex(raw) ==
  IF \E i \in 1..Len(dim_cache) : dim_cache[i].raw = raw
    THEN CHOOSE i \in 1..Len(dim_cache) : dim_cache[i].raw = raw
    ELSE 0

\* A call with the lru_cache in front: <<the cached answer>>, or <<the
\* body's answer>>, or <<>> when the body raises.
get_dimension_display_name(raw) ==
  IF CacheIndex(raw) # 0 THEN <<dim_cache[CacheIndex(raw)].display>>
  ELSE IF LoadRaises(mapfile) THEN <<>>
  ELSE <<LookupDisplay(raw, mapfile)>>

Without(seq, i) == SubSeq(seq, 1, i - 1) \o SubSeq(seq, i + 1, Len(seq))

\* The cache after that call: a hit becomes the most recent entry; a miss
\* is stored, in place of the least recent entry when the cache is full; an
\* exception is not stored.
CacheAfter(raw) ==
  IF CacheIndex(raw) # 0
    THEN Append(Without(dim_cache, CacheIndex(raw)), dim_cache[CacheIndex(raw)])
  ELSE IF LoadRaises(mapfile) THEN dim_cache
  ELSE Append(IF Len(dim_cache) >= lru_maxsize THEN Tail(dim_cache) ELSE dim_cache,
              [raw |-> raw, display |-> LookupDisplay(raw, mapfile)])

\* One call of get_dimension_display_name(raw), with its trace
Lookup(raw) ==
  /\ dim_cache' = CacheAfter(raw)
  /\ last' = [raw |-> raw, hit |-> CacheIndex(raw) # 0,
              out |-> get_dimension_display_name(raw)]
  /\ first' = IF raw \in DOMAIN first \/ get_dimension_display_name(raw) = <<>>
                THEN first
                ELSE first @@ (raw :> get_dimension_display_name(raw)[1])

\* ========================================================= get_player_infos
\* The calls of rcon_client.execute in this request are taken as answered:
\* what they return is an input here.
Txt_1_64_m3 == <<"1", ".", "5", "d", ",", " ", "6", "4", ".", "0", "d", ",", " ",
                 "-", "3", ".", "2", "d">>                    \* 1.5d, 64.0d, -3.2d
Txt_exp     == <<"1", "E", "2", "d", ",", " ", "0", "d", ",", " ", "+", ".", "5", "d">>
                                                              \* 1E2d, 0d, +.5d
Txt_two     == <<"1", ".", "5", "d", ",", " ", "6", "4", "d">>     \* 1.5d, 64d
Txt_nospace == <<"1", "d", ",", "2", "d", ",", "3", "d">>          \* 1d,2d,3d

NoField == <<>>

R_ok      == [phrase |-> "data", Pos |-> <<Txt_1_64_m3>>, Dimension |-> <<Overworld>>,
              Health |-> <<<<"2", "0", ".", "0", "f">>>>, food |-> <<<<"2", "0">>>>,
              level |-> <<<<"5">>>>]
R_exp     == [phrase |-> "data", Pos |-> <<Txt_exp>>, Dimension |-> <<CustomDim>>,
              Health |-> <<<<"1", ".", "2", ".", "3", "f">>>>, food |-> <<<<"3", "b">>>>,
              level |-> NoField]
R_two     == [phrase |-> "data", Pos |-> <<Txt_two>>, Dimension |-> <<TheEnd>>,
              Health |-> <<<<"7", "s">>>>, food |-> <<<<"x">>>>, level |-> <<<<"1", "2", "s">>>>]
R_nospace == [phrase |-> "data", Pos |-> <<Txt_nospace>>, Dimension |-> <<Overworld>>,
              Health |-> <<<<"2", "0">>>>, food |-> NoField, level |-> <<<<"0">>>>]
R_nodim   == [phrase |-> "data", Pos |-> <<Txt_1_64_m3>>, Dimension |-> NoField,
              Health |-> <<<<"2", "0", ".", "0", "f">>>>, food |-> <<<<"2", "0">>>>,
              level |-> <<<<"5">>>>]
R_nopos   == [phrase |-> "data", Pos |-> NoField, Dimension |-> <<TheEnd>>,
              Health |-> NoField, food |-> NoField, level |-> NoField]
R_gone    == [phrase |-> "No entity was found", Pos |-> NoField, Dimension |-> NoField,
              Health |-> NoField, food |-> NoField, level |-> NoField]
R_unable  == [phrase |-> "Unable to find entity", Pos |-> NoField, Dimension |-> NoField,
              Health |-> NoField, food |-> NoField, level |-> NoField]

EntityResponses == {R_ok, R_exp, R_two, R_nospace, R_nodim, R_nopos, R_gone, R_unable}

\* The list response: whether it holds "There are 0", and the names
\* PLAYERNAME_PATTERN finds in it, in order.
ListResponses ==
  { [zero |-> TRUE,  matches |-> <<>>],
    [zero |-> TRUE,  matches |-> <<"max", "online">>],
    [zero |-> FALSE, matches |-> <<>>],
    [zero |-> FALSE, matches |-> <<"alice", "alice", "bob">>],
    [zero |-> FALSE, matches |-> <<"alice", "bob", "carol">>] }

Range(f) == {f[i] : i \in DOMAIN f}

\* parse_players without the set: list(matches)
parse_players_NoSet(list_response) == {list_response.matches}

\* parse_players: list(set(matches)), in any of the orders a set may be listed in
parse_players(list_response) ==
  LET names == Range(list_response.matches)
  IN {q \in [1..Cardinality(names) -> names] : Range(q) = names}

\* line 327: if not data.get("pos") or not data.get("dimension")
Incomplete(data) == "pos" \notin DOMAIN data \/ "dimension" \notin DOMAIN data

\* lines 331-340; data["pos"] and data["dimension"] raise KeyError when missing
RecordRaises(data) == ~({"pos", "dimension"} \subseteq DOMAIN data)
Record(player, data) ==
  [name      |-> player,
   dimension |-> data["dimension"],
   position  |-> [i \in 1..3 |-> Round1(data["pos"][i])],
   status    |-> [k \in DOMAIN data \cap {"health", "food", "level"} |-> data[k]]]

\* lines 302-309
InfoList ==
  /\ ipc = "start"
  /\ \E lr \in ListResponses :
       /\ list_resp' = lr
       /\ IF lr.zero
            THEN ipc' = "returned" /\ players' = <<>>
            ELSE \E q \in parse_players(lr) :
                   /\ players' = q
                   /\ ipc' = IF q = <<>> THEN "returned" ELSE "loop"
  /\ UNCHANGED <<idx, results, resps, datas, lookups>>
  /\ UNCHANGED <<mapfile, dims, rcon>>

\* lines 317 and 320: the not-found phrases
NotFound(r) == r.phrase \in {"No entity was found", "Unable to find entity"}

\* the loop left at a not-found response
OnNotFoundReturn == "return"

\* lines 319 and 322: continue
OnNotFound == "continue"

\* the dict of a response that was not parsed
NoData == <<>>

\* lines 312-342: one iteration of the loop over the players
InfoPlayer ==
  /\ ipc = "loop" /\ idx <= Len(players)
  /\ \E r \in EntityResponses :
       LET raw     == DIMENSION_PATTERN(r.Dimension)
           display == [x \in Range(raw) |-> get_dimension_display_name(x)]
       IN /\ resps' = Append(resps, r)
          /\ IF NotFound(r)
               THEN /\ UNCHANGED <<results, dims>>
                    /\ datas' = Append(datas, NoData)
                    /\ lookups' = Append(lookups, "none")
                    /\ ipc' = IF OnNotFound = "continue" THEN ipc ELSE "returned"
               ELSE /\ IF raw = <<>> THEN UNCHANGED dims ELSE Lookup(raw[1])
                    /\ lookups' = Append(lookups,
                                         IF raw = <<>> THEN "none"
                                         ELSE IF display[raw[1]] = <<>> THEN "raised"
                                         ELSE "ok")
                    /\ \E data \in {parse_entity_data(r, display)} :
                         /\ datas' = Append(datas, data)
                         /\ results' = IF Incomplete(data) \/ RecordRaises(data)
                                         THEN results
                                         ELSE Append(results, Record(players[idx], data))
                    /\ UNCHANGED ipc
  /\ idx' = idx + 1
  /\ UNCHANGED <<mapfile, list_resp, players, rcon>>

\* line 344
InfoReturn ==
  /\ ipc = "loop" /\ idx > Len(players)
  /\ ipc' = "returned"
  /\ UNCHANGED <<mapfile, dims, req, rcon>>

\* dimension_map.json is edited, removed or damaged while the process runs
EditMap ==
  /\ mapfile' \in MapFiles \ {mapfile}
  /\ last' = NoLookup
  /\ UNCHANGED <<dim_cache, first, ipc, req, rcon>>

NextInfo ==
  \/ InfoList
  \/ InfoPlayer
  \/ InfoReturn
  \/ EditMap

\* One player-info request, served while the game server is reachable.
InitRequest == InitRcon /\ up = TRUE /\ InitInfo

SpecInfo == InitRequest /\ [][NextInfo]_vars

\* ------------------------------------------------- the resolver on its own
\* Lookups of identifiers one after another: of the overworld at any time,
\* of further identifiers each when it is new.
Used == Cardinality(DOMAIN first \ {Overworld})

DimLookup ==
  /\ \E raw \in {Overworld} \cup {OtherDims(k) : k \in {Used + 1} \cap 1..MaxDims} :
       Lookup(raw)
  /\ UNCHANGED <<mapfile, ipc, req, rcon>>

NextDim ==
  \/ DimLookup
  \/ EditMap

SpecDim == InitRequest /\ [][NextDim]_vars

\* ================================================================= claims

\* C1: at most one command is in flight on the shared connection: no worker
\* sends a command between another worker's send and that worker's receipt
\* of its response.
C1_OneCommandInFlight ==
  \A w, v \in Workers :
    (w # v /\ pc[w] = "e_recv" /\ pc[v] = "e_recv") => held[w] # held[v]

\* C2: an execute(command) issued while the server was unreachable returns,
\* once the server is reachable again, the server's response to that command.
\* (The safety half of the claim: what the call returns when it returns.)
C2_ReturnsOwnResponse ==
  \A w \in Workers : (pc[w] = "e_done" /\ issued[w]) => result[w] = w

\* C3: execute() never ends in an error visible to its caller: after every
\* failure raised while connecting or sending, the call is retrying or has
\* returned a response.
C3_NeverPropagates ==
  \A w \in Workers :
    /\ pc[w] # "x_raised"
    /\ failed[w] # "none" => pc[w] \in DiscPcs \cup {"e_sleep", "e_check"}
    /\ pc[w] = "e_done" => result[w] \in Workers

C3_Witness ==
  \E w, v \in Workers :
    /\ pc[w] = "e_check" /\ failed[w] = "connect"
    /\ pc[v] = "e_done" /\ issued[v] /\ result[v] \in Workers

\* C4: within one call of connect(), the wait after the k-th consecutive
\* failed attempt (k = 0, 1, 2, ...) is min(10 * 2^k, 300) seconds: the waits
\* start at 10, never decrease and never exceed 300.
C4_BackoffSchedule ==
  \A p \in Procs :
    /\ \A i \in 1..Len(waits[p]) :
         waits[p][i] = (IF 10 * 2^(i - 1) < 300 THEN 10 * 2^(i - 1) ELSE 300)
    /\ \A i \in 1..Len(waits[p]) : waits[p][i] >= 10 /\ waits[p][i] <= 300
    /\ \A i \in 2..Len(waits[p]) : waits[p][i - 1] <= waits[p][i]
    /\ pc[p] = "c_sleep" =>
         /\ Len(waits[p]) = attempt[p] + 1
         /\ wait[p] = waits[p][Len(waits[p])]

C4_Witness ==
  /\ pc[Main] = "c_sleep"
  /\ waits[Main] = <<10, 20, 40, 80, 160, 300, 300>>

\* C5: after any successful connect, the first failed connect attempt that
\* follows waits the base interval (10 s), whatever number of failures
\* preceded that success.
C5_FirstWaitAfterSuccess ==
  [][\A p \in Procs :
       (sinceOk /\ pc[p] = "c_conn" /\ pc'[p] = "c_sleep") => wait'[p] = connect_cooldown]_vars

\* C6: whenever connect() returns, the session reference holds the connection
\* that call has just authenticated and the connect timestamp has been set.
C6_ReturnsConnected ==
  [][\A p \in Procs :
       (pc[p] = "c_ret" /\ pc'[p] # "c_ret") =>
          /\ conn' # None
          /\ conn' = authd[p]
          /\ cstate'[conn'] = "open"
          /\ last_connect_time' >= 1]_vars

\* C7: when sending a command fails inside execute(), the session is
\* discarded, then a fixed wait of connect_cooldown elapses, then the
\* operation is retried starting with a fresh connect().
C7_RetryStartsWithConnect ==
  [][\A w \in Workers :
       /\ (pc'[w] = "e_sleep" /\ pc[w] # "e_sleep") => pc[w] \in DiscPcs
       /\ (pc[w] = "e_check" /\ failed[w] = "send" /\ pc'[w] # "e_check") =>
            /\ wait[w] = connect_cooldown
            /\ pc'[w] = "c_start"]_vars

\* C8: disconnect() always leaves the session reference empty and returns to
\* its caller without an error, whether the close succeeds or raises; called
\* when already disconnected it changes nothing.
C8_DisconnectClears ==
  [][\A p \in Procs :
       /\ (pc[p] \in DiscPcs /\ pc'[p] \notin DiscPcs) =>
            /\ conn' = None
            /\ pc'[p] = dret[p]
       /\ (pc[p] = "d_check" /\ conn = None /\ pc'[p] # "d_check") =>
            /\ pc'[p] = dret[p]
            /\ shared' = shared]_vars

C8_Witness ==
  \E p \in Procs : dexc[p] /\ pc[p] \in {"c_new", "e_sleep"} /\ conn = None

\* C9: in every reachable state at most one connection opened by the session
\* manager is open, and every open connection is referred to.
C9_AtMostOneOpen ==
  /\ Cardinality({c \in Conns : cstate[c] = "open"}) <= 1
  /\ \A c \in Conns : cstate[c] = "open" => Referenced(c, conn, held)

\* The case of C10: the request is answered, three players were listed, every
\* entity response holds a dimension, exactly one holds a position token
\* that is malformed ("1.5d, 64d" has two components, "1d,2d,3d" no ", ")
\* and the other two hold a well-formed one.
C10_MalformedPos == {R_two, R_nospace}
C10_WellFormedPos == {R_ok, R_exp}
C10_Malformed == {i \in 1..Len(resps) : resps[i] \in C10_MalformedPos}
C10_WellFormed == {i \in 1..Len(resps) : resps[i] \in C10_WellFormedPos}
C10_Case ==
  /\ ipc = "returned"
  /\ Len(players) = 3 /\ Len(resps) = 3
  /\ \A i \in 1..3 : resps[i].Dimension # NoField
  /\ Cardinality(C10_Malformed) = 1
  /\ Cardinality(C10_WellFormed) = 2

\* C10 as stated: in that case the result set contains all three players,
\* the one with the malformed position with name, dimension and status and
\* without a position.
C10_AllThreeListed ==
  C10_Case =>
    /\ Len(results) = 3
    /\ \A i \in 1..3 :
         /\ results[i].name = players[i]
         /\ results[i].dimension.raw = resps[i].Dimension[1]
         /\ i \in C10_Malformed => "position" \notin DOMAIN results[i]

\* What the two well-formed responses hold: the position in tenths and the
\* status fields that parse ("1.2.3" is no number, "3b" is the food level 3).
C10_Position == (R_ok :> <<15, 640, -32>>) @@ (R_exp :> <<1000, 0, 5>>)
C10_Status == (R_ok :> {"health", "food", "level"}) @@ (R_exp :> {"food"})
C10_Displays == (Overworld :> {"Overworld", "overworld"})
                @@ (CustomDim :> {"custom_dim"})

\* the well-formed players whose dimension name was resolved
C10_Resolved == {i \in C10_WellFormed : lookups[i] = "ok"}

\* C10 (amended): in that case the result set contains, in the order they
\* were listed, exactly those of the two players with a well-formed position
\* whose dimension name was resolved (a lookup fails only by raising, when
\* the mapping file cannot be decoded), each with name, dimension, position rounded to one decimal
\* and its parsable status fields; the player with the malformed position
\* is not in the result set.
C10_WellFormedListed ==
  C10_Case =>
    /\ Len(results) = Cardinality(C10_Resolved)
    /\ \A i \in C10_WellFormed : lookups[i] \in {"ok", "raised"}
    /\ \A i \in C10_Malformed, j \in 1..Len(results) : results[j].name # players[i]
    /\ \A i \in C10_Resolved :
         LET j == Cardinality({k \in C10_Resolved : k <= i})
         IN /\ results[j].name = players[i]
            /\ results[j].dimension.raw = resps[i].Dimension[1]
            /\ results[j].dimension.display \in C10_Displays[resps[i].Dimension[1]]
            /\ results[j].position = C10_Position[resps[i]]
            /\ DOMAIN results[j].status = C10_Status[resps[i]]

C10_Witness ==
  /\ C10_Case
  /\ resps = <<R_ok, R_nospace, R_exp>>
  /\ Len(results) = 2
  /\ results[2].status = [food |-> 3]

\* The fields of each response whose pattern matches and whose value
\* converts: "1.2.3" is no number, "20" lacks the suffix, "x" is no digit.
C11_Fields ==
  (R_ok :> {"pos", "dimension", "health", "food", "level"})
  @@ (R_exp :> {"pos", "dimension", "food"})
  @@ (R_two :> {"dimension", "health", "level"})
  @@ (R_nospace :> {"dimension", "level"})
  @@ (R_nodim :> {"pos", "health", "food", "level"})
  @@ (R_nopos :> {"dimension"})

\* C11: each of the five fields is a key of the record parse_entity_data
\* returns if and only if its pattern matched and its value converted (for
\* the dimension: its display name was resolved); the failure of one field
\* removes no other field.
C11_PresenceIffParsed ==
  \A i \in 1..Len(datas) :
    resps[i] \in DOMAIN C11_Fields =>
      DOMAIN datas[i] = C11_Fields[resps[i]]
                          \ (IF lookups[i] = "raised" THEN {"dimension"} ELSE {})

\* C12: a player whose detail query returns a not-found phrase is not in
\* the result set and does not end the request: every listed player is
\* queried, and every other player whose data is complete is in the result.
C12_NotFoundSkipped ==
  ipc = "returned" =>
    /\ Len(resps) = Len(players)
    /\ \A i \in 1..Len(resps) :
         /\ resps[i] \in {R_gone, R_unable} =>
              \A j \in 1..Len(results) : results[j].name # players[i]
         /\ (resps[i] \in {R_ok, R_exp} /\ lookups[i] = "ok") =>
              \E j \in 1..Len(results) : results[j].name = players[i]

C12_Witness ==
  /\ ipc = "returned"
  /\ resps = <<R_gone, R_ok, R_unable>>
  /\ Len(results) = 1 /\ results[1].name = players[2]

\* C16: the request's player list holds each distinct name of the list
\* response exactly once, and a response that indicates zero players gives
\* the empty result whatever else it contains.
C16_DistinctOrEmpty ==
  ipc # "start" =>
    IF list_resp.zero
      THEN players = <<>> /\ ipc = "returned" /\ results = <<>>
      ELSE /\ Range(players) = Range(list_resp.matches)
           /\ Len(players) = Cardinality(Range(list_resp.matches))

C16_Witness ==
  /\ ipc = "returned"
  /\ list_resp.matches = <<"alice", "alice", "bob">>
  /\ Len(players) = 2 /\ Len(resps) = 2

C16_WitnessZero ==
  ipc = "returned" /\ list_resp.zero /\ list_resp.matches # <<>>

\* C17: two calls of parse_entity_data on the same response text, made at
\* any two points of the run, return identical records.
C17_SameRecord ==
  \A i, j \in 1..Len(datas) : resps[i] = resps[j] => datas[i] = datas[j]

\* C13: two lookups of the same raw identifier return the same display
\* name, whatever lookups were made and whatever happened to the mapping
\* file in between: every lookup that returns, returns what the first one
\* for that identifier returned.
C13_SameDisplay ==
  (last.out # <<>> /\ last.raw \in DOMAIN first) => last.out[1] = first[last.raw]

\* C14: the cache only grows: an entry once added (an identifier once
\* answered) is in the cache ever after, unchanged, so the table is not
\* loaded for that identifier again.
C14_CacheOnlyGrows ==
  \A raw \in DOMAIN first :
    \E i \in 1..Len(dim_cache) :
      dim_cache[i].raw = raw /\ dim_cache[i].display = first[raw]

\* C15: a lookup that consults the table returns the table's value for an
\* identifier in the table, and the part of the identifier after its last
\* colon (the whole identifier when it has none) for an identifier with no
\* entry or when the table is missing or malformed.
C15_FallbackDisplay ==
  (last.raw # <<>> /\ ~last.hit) =>
     last.out = << IF mapfile = "table" /\ last.raw = Overworld THEN "Overworld"
                   ELSE IF mapfile = "table" /\ last.raw = TheEnd THEN "The End"
                   ELSE last.raw[Len(last.raw)] >>

\* C18: while requests are served, a non-empty session reference refers to
\* a connection whose authentication succeeded (so /health reports
\* rcon_connected only then, and execute finds only such a connection).
C18_SessionAuthenticated ==
  (pc[Main] = "m_serve" /\ conn # None) => cstate[conn] \in {"open", "closed"}

\* C19 as stated: inside connect(), every failed attempt that connect()
\* handles, the library type error included, is followed by a wait of at
\* least the base interval.
C19_EveryFailureWaits ==
  [][\A p \in Procs :
       (pc[p] = "c_conn" /\ pc'[p] \in {"c_sleep", "c_fix"}) =>
          (pc'[p] = "c_sleep" /\ wait'[p] >= connect_cooldown)]_vars

\* C19 (amended): inside connect(), a failed attempt handled as a transport
\* or protocol failure is followed by a wait of at least the base interval
\* and then by an increment of the attempt counter before the next attempt;
\* an attempt that fails with the library type error is followed by a
\* rebuilt connection object and the next attempt, with no wait and no
\* increment.  No attempt is made except at the head of a loop iteration.
C19_TransportFailureWaits ==
  [][\A p \in Procs :
       /\ (pc[p] = "c_conn" /\ pc'[p] = "c_sleep") =>
            /\ wait'[p] >= connect_cooldown
            /\ attempt'[p] = attempt[p]
       /\ (pc[p] = "c_sleep" /\ pc'[p] # "c_sleep") =>
            /\ attempt'[p] = attempt[p] + 1
            /\ pc'[p] = "d_check" /\ dret'[p] = "c_new"
       /\ (pc[p] = "c_conn" /\ pc'[p] = "c_fix") =>
            /\ wait'[p] = wait[p] /\ attempt'[p] = attempt[p]
       /\ (pc[p] = "c_fix" /\ pc'[p] # "c_fix") =>
            /\ wait'[p] = wait[p] /\ attempt'[p] = attempt[p]
            /\ pc'[p] = "d_check" /\ dret'[p] = "c_new"
            /\ conn' # None /\ cstate'[conn'] = "new"
       /\ (pc'[p] = "c_conn" /\ pc[p] # "c_conn") => pc[p] = "c_new"]_vars

C19_Witness ==
  \E p \in Procs : pc[p] = "c_fix" /\ attempt[p] >= 1 /\ wait[p] = 0

====
